---- MODULE Spec2Model ----
(***************************************************************************)
(* A model of the eggtimer crate (src/src/lib.rs): the pausable Stopwatch, *)
(* the countdown EggTimer and the duration-tagged TimedList, all driven by *)
(* a monotonic clock.  An Instant is a natural number of clock units and a *)
(* Duration is a natural number of the same units.                         *)
(***************************************************************************)
EXTENDS Naturals, Integers, Sequences, FiniteSets

\* The largest clock reading explored.
MaxClock == 4
\* The largest accumulated Stopwatch duration explored (prev_dur).
MaxDur == 8
\* The largest target duration handed to EggTimer::set.
MaxTarget == 3
\* The largest clock reading explored with a TimedList.
MaxListClock == 2
\* The largest duration handed to TimedList::insert.
MaxListTarget == 2
\* The largest number of entries a TimedList holds.
MaxLen == 2
\* The largest number of pairs handed to from_iter on its own.
MaxPairs == 3
\* The values stored in a TimedList.
Elems == {"a", "b"}

VARIABLES
    obj,      \* which object the program constructed
    now,      \* the reading Instant::now() returns
    sw,       \* the Stopwatch under test, or NoObject
    swLog,    \* history of the Stopwatch calls made so far
    egg,      \* the EggTimer under test, or NoObject
    eggLog,   \* history of the EggTimer calls made so far
    list,     \* the backing Vec<(EggTimer, T)> of the TimedList, or NoObject
    it,       \* the live iterator over the TimedList, NoIter when there is none
    call,     \* the TimedList call that has just returned, NoCall when none has
    was       \* per position of the Vec: has this entry been seen timed out

vars == <<obj, now, sw, swLog, egg, eggLog, list, it, call, was>>

\* The value of a variable whose object the program has not constructed.
NoObject == "none"

\* Option<T>: None is the empty sequence, Some(x) the one-element sequence.
None == <<>>
Some(x) == <<x>>

----------------------------------------------------------------------------
(* Duration and Instant arithmetic                                         *)

\* Instant::duration_since on a monotonic clock.
duration_since(t, earlier) == t - earlier

\* Duration::checked_sub: None when the result would be negative.
checked_sub(a, b) == IF b > a THEN None ELSE Some(a - b)

\* impl ToDuration for Duration.
to_duration(d) == d

----------------------------------------------------------------------------
(* Timer                                                                   *)

Timer_start(t) == [start |-> t]

Timer_duration(tm, t) == duration_since(t, tm.start)

----------------------------------------------------------------------------
(* EggTimer                                                                *)

EggTimer_set(time, t) == [timer |-> Timer_start(t), duration |-> to_duration(time)]

EggTimer_reset(e, t) == [e EXCEPT !.timer = Timer_start(t)]

EggTimer_duration_left(e, t) == checked_sub(e.duration, Timer_duration(e.timer, t))

EggTimer_is_ready(e, t) == EggTimer_duration_left(e, t) = None

EggTimer_max_duration(e) == e.duration

EggTimer_duration(e, t) == Timer_duration(e.timer, t)

----------------------------------------------------------------------------
(* Stopwatch                                                               *)

Stopwatch_start(t) == [last_start |-> t, prev_dur |-> 0, paused |-> FALSE]

Stopwatch_start_paused(t) == [last_start |-> t, prev_dur |-> 0, paused |-> TRUE]

\* reset() that restarts the live segment but keeps the accumulated time.
Stopwatch_reset_keeps_prev_dur(s, t) == [s EXCEPT !.last_start = t]

Stopwatch_reset(s, t) == [s EXCEPT !.last_start = t, !.prev_dur = 0]

Stopwatch_duration(s, t) ==
    IF s.paused
        THEN s.prev_dur
        ELSE s.prev_dur + duration_since(t, s.last_start)

\* pause() that also sets the paused flag.
Stopwatch_pause_sets_flag(s, t) ==
    IF ~s.paused
        THEN [s EXCEPT !.prev_dur = s.prev_dur + duration_since(t, s.last_start),
                       !.paused = TRUE]
        ELSE s

Stopwatch_pause(s, t) ==
    IF ~s.paused
        THEN [s EXCEPT !.prev_dur = s.prev_dur + duration_since(t, s.last_start)]
        ELSE s

Stopwatch_resume(s, t) ==
    IF s.paused
        THEN [s EXCEPT !.last_start = t]
        ELSE s

Stopwatch_toggle(s, t) ==
    IF s.paused
        THEN Stopwatch_pause(s, t)
        ELSE Stopwatch_resume(s, t)

----------------------------------------------------------------------------
(* TimedList                                                               *)

TimedList_new == <<>>

\* insert() that puts the new entry at the front of the Vec.
TimedList_insert_front(l, element, time, t) ==
    <<[timer |-> EggTimer_set(time, t), elem |-> element]>> \o l

TimedList_insert(l, element, time, t) ==
    Append(l, [timer |-> EggTimer_set(time, t), elem |-> element])

\* clean() with the test the wrong way round: it keeps the ready entries.
TimedList_clean_keeps_ready(l, t) ==
    SelectSeq(l, LAMBDA e : EggTimer_is_ready(e.timer, t))

TimedList_clean(l, t) ==
    SelectSeq(l, LAMBDA e : ~EggTimer_is_ready(e.timer, t))

TimedList_clear(l) == <<>>

\* The predicate f is given by the set of values it accepts.
TimedList_retain(l, f) == SelectSeq(l, LAMBDA e : e.elem \in f)

\* The filter_map closures of the five iterations, applied to one entry at
\* clock reading t: None for a timed-out entry, else the item yielded.
iter_closure(e, t) ==
    IF EggTimer_is_ready(e.timer, t) THEN None ELSE Some(e.elem)

\* iter_mut's closure without the readiness test.
iter_mut_closure_unfiltered(e, t) == Some(e.elem)

iter_mut_closure(e, t) ==
    IF EggTimer_is_ready(e.timer, t) THEN None ELSE Some(e.elem)

timer_iter_closure(e, t) ==
    IF EggTimer_is_ready(e.timer, t) THEN None ELSE Some(<<e.elem, e.timer>>)

timer_iter_mut_closure(e, t) ==
    IF EggTimer_is_ready(e.timer, t) THEN None ELSE Some(<<e.elem, e.timer>>)

into_iter_closure(e, t) ==
    IF EggTimer_is_ready(e.timer, t) THEN None ELSE Some(e.elem)

\* iter() run to its end at one clock reading: the items it yields.
TimedList_iter(l, t) ==
    LET kept == SelectSeq(l, LAMBDA e : iter_closure(e, t) # None)
    IN  [i \in 1..Len(kept) |-> iter_closure(kept[i], t)[1]]

\* len() as the physical length of the Vec.
TimedList_len_physical(l, t) == Len(l)

\* len() is self.iter().count().
TimedList_len(l, t) == Len(TimedList_iter(l, t))

\* is_empty() as emptiness of the Vec.
TimedList_is_empty_physical(l, t) == Len(l) = 0

TimedList_is_empty(l, t) == TimedList_len(l, t) = 0

\* FromIterator: each (value, duration) pair is mapped to an entry with
\* EggTimer::set(duration) and the entries are collected in order.
\* from_iter that sets every timer with the duration of the first pair.
TimedList_from_iter_first_duration(pairs, t) ==
    [i \in 1..Len(pairs) |->
        [timer |-> EggTimer_set(pairs[1].time, t), elem |-> pairs[i].elem]]

TimedList_from_iter(pairs, t) ==
    [i \in 1..Len(pairs) |->
        [timer |-> EggTimer_set(pairs[i].time, t), elem |-> pairs[i].elem]]

\* The closure the live iterator applies.
Closure(kind, e, t) ==
    CASE kind = "iter"           -> iter_closure(e, t)
      [] kind = "iter_mut"       -> iter_mut_closure(e, t)
      [] kind = "timer_iter"     -> timer_iter_closure(e, t)
      [] kind = "timer_iter_mut" -> timer_iter_mut_closure(e, t)
      [] kind = "into_iter"      -> into_iter_closure(e, t)

\* No iterator is alive: the list is not borrowed.
NoIter == [kind |-> "none", items |-> <<>>, front |-> 0, back |-> 0, out |-> <<>>]

\* A fresh double-ended filter_map iterator over the entries v; out collects
\* what it yields, with the entry each item came from and the clock reading
\* of the step.
NewIter(kind, v) == [kind |-> kind, items |-> v, front |-> 0, back |-> 0, out |-> <<>>]

\* One step of the iterator on the entry at position i of its slice: the
\* closure reads the clock once and the item, if any, is yielded.
Yielded(i) ==
    LET e == it.items[i]
        r == Closure(it.kind, e, now)
    IN  IF r = None
            THEN it.out
            ELSE Append(it.out, [item |-> r[1], entry |-> e, idx |-> i, at |-> now])

----------------------------------------------------------------------------
(* History kept for the properties: the last two calls, the object before  *)
(* each of them, the clock reading of the last call and of the last        *)
(* creation or reset.                                                      *)

SwLogAfter(op) ==
    [op      |-> op,
     prevOp  |-> swLog.op,
     pre     |-> sw,
     pre2    |-> swLog.pre,
     at      |-> now,
     epoch   |-> IF op = "reset" THEN now ELSE swLog.epoch]

EggLogAfter(op) == [op |-> op, pre |-> egg, at |-> now]

\* The Vec of entries: held by the TimedList, or by the consuming iterator
\* it was moved into.
Vec == IF it.kind = "into_iter" THEN it.items ELSE list

\* The flags w of the entries of l, once each entry has been looked at at
\* clock reading t.
SeenReady(l, w, t) ==
    [i \in 1..Len(l) |-> w[i] \/ EggTimer_is_ready(l[i].timer, t)]

\* The flags w of the entries of l, for the positions whose entry satisfies
\* Keep, in order: the flags of what Vec::retain leaves.
FlagsKept(l, w, Keep(_)) ==
    LET idx == SelectSeq([i \in 1..Len(l) |-> i], LAMBDA i : Keep(l[i]))
    IN  [k \in 1..Len(idx) |-> w[idx[k]]]

\* No TimedList call has just returned: the last step was a clock tick or an
\* iterator step.
NoCall ==
    [op |-> "none", pre |-> <<>>, at |-> 0, f |-> {}, pairs |-> <<>>,
     n |-> 0, b |-> FALSE]

\* The record of a TimedList call made now on the current list: its name,
\* the Vec before it and the clock reading; f is the predicate of retain,
\* pairs the input of from_iter, n the result of len, b that of is_empty.
CallAfter(op) ==
    [op |-> op, pre |-> list, at |-> now, f |-> {}, pairs |-> <<>>,
     n |-> 0, b |-> FALSE]

----------------------------------------------------------------------------
(* Initial states: the program constructs one object at clock reading 0.   *)

InitStopwatch ==
    /\ obj = "Stopwatch"
    /\ now = 0
    /\ \E s \in {Stopwatch_start(0), Stopwatch_start_paused(0)} :
          /\ sw = s
          /\ swLog = [op |-> IF s.paused THEN "start_paused" ELSE "start",
                      prevOp |-> "none", pre |-> s, pre2 |-> s,
                      at |-> 0, epoch |-> 0]
    /\ egg = NoObject
    /\ eggLog = NoObject
    /\ list = NoObject
    /\ it = NoObject
    /\ call = NoObject
    /\ was = NoObject

InitEggTimer ==
    /\ obj = "EggTimer"
    /\ now = 0
    /\ \E d \in 0..MaxTarget :
          /\ egg = EggTimer_set(d, 0)
          /\ eggLog = [op |-> "set", pre |-> EggTimer_set(d, 0), at |-> 0]
    /\ sw = NoObject
    /\ swLog = NoObject
    /\ list = NoObject
    /\ it = NoObject
    /\ call = NoObject
    /\ was = NoObject

\* The (value, duration) sequences handed to from_iter.
PairSeqs ==
    UNION {[1..k -> [elem : Elems, time : 0..MaxListTarget]] : k \in 0..MaxLen}

\* The TimedList is made by new() or collected from a sequence of pairs.
InitTimedList ==
    /\ obj = "TimedList"
    /\ now = 0
    /\ it = NoIter
    /\ \/ /\ list = TimedList_new
          /\ call = NoCall
       \/ \E pairs \in PairSeqs :
             /\ list = TimedList_from_iter(pairs, 0)
             /\ call = [NoCall EXCEPT !.op = "from_iter", !.pairs = pairs]
    /\ was = SeenReady(list, [i \in 1..Len(list) |-> FALSE], 0)
    /\ sw = NoObject
    /\ swLog = NoObject
    /\ egg = NoObject
    /\ eggLog = NoObject

\* The longer (value, duration) sequences handed to from_iter on its own.
FromIterInputs ==
    UNION {[1..k -> [elem : Elems, time : 0..MaxListTarget]] : k \in 0..MaxPairs}

\* A TimedList collected from a sequence of pairs at some clock reading.
InitFromIter ==
    /\ obj = "TimedList"
    /\ now \in 0..MaxListClock
    /\ it = NoIter
    /\ \E pairs \in FromIterInputs :
          /\ list = TimedList_from_iter(pairs, now)
          /\ call = [NoCall EXCEPT !.op = "from_iter", !.pairs = pairs, !.at = now]
    /\ was = SeenReady(list, [i \in 1..Len(list) |-> FALSE], now)
    /\ sw = NoObject
    /\ swLog = NoObject
    /\ egg = NoObject
    /\ eggLog = NoObject

Init == InitStopwatch \/ InitEggTimer \/ InitTimedList

----------------------------------------------------------------------------
(* Actions                                                                 *)

\* Real time passes: the next Instant::now() reads one unit later.
Tick ==
    /\ now < (IF obj = "TimedList" THEN MaxListClock ELSE MaxClock)
    /\ now' = now + 1
    /\ call' = IF obj = "TimedList" THEN NoCall ELSE call
    /\ was' = IF obj = "TimedList" THEN SeenReady(Vec, was, now + 1) ELSE was
    /\ UNCHANGED <<obj, sw, swLog, egg, eggLog, list, it>>

Pause ==
    /\ obj = "Stopwatch"
    /\ Stopwatch_pause(sw, now).prev_dur <= MaxDur
    /\ sw' = Stopwatch_pause(sw, now)
    /\ swLog' = SwLogAfter("pause")
    /\ UNCHANGED <<obj, now, egg, eggLog, list, it, call, was>>

Resume ==
    /\ obj = "Stopwatch"
    /\ sw' = Stopwatch_resume(sw, now)
    /\ swLog' = SwLogAfter("resume")
    /\ UNCHANGED <<obj, now, egg, eggLog, list, it, call, was>>

Toggle ==
    /\ obj = "Stopwatch"
    /\ Stopwatch_toggle(sw, now).prev_dur <= MaxDur
    /\ sw' = Stopwatch_toggle(sw, now)
    /\ swLog' = SwLogAfter("toggle")
    /\ UNCHANGED <<obj, now, egg, eggLog, list, it, call, was>>

ResetStopwatch ==
    /\ obj = "Stopwatch"
    /\ sw' = Stopwatch_reset(sw, now)
    /\ swLog' = SwLogAfter("reset")
    /\ UNCHANGED <<obj, now, egg, eggLog, list, it, call, was>>

SetEggTimer ==
    /\ obj = "EggTimer"
    /\ \E d \in 0..MaxTarget :
          /\ egg' = EggTimer_set(d, now)
          /\ eggLog' = EggLogAfter("set")
    /\ UNCHANGED <<obj, now, sw, swLog, list, it, call, was>>

ResetEggTimer ==
    /\ obj = "EggTimer"
    /\ egg' = EggTimer_reset(egg, now)
    /\ eggLog' = EggLogAfter("reset")
    /\ UNCHANGED <<obj, now, sw, swLog, list, it, call, was>>

\* Methods taking &mut self or self need the list not to be borrowed.
Unborrowed == obj = "TimedList" /\ it.kind = "none"

Insert ==
    /\ Unborrowed
    /\ Len(list) < MaxLen
    /\ \E element \in Elems, time \in 0..MaxListTarget :
          list' = TimedList_insert(list, element, time, now)
    /\ call' = CallAfter("insert")
    /\ was' = Append(was, EggTimer_is_ready(list'[Len(list')].timer, now))
    /\ UNCHANGED <<obj, now, sw, swLog, egg, eggLog, it>>

Clean ==
    /\ Unborrowed
    /\ list' = TimedList_clean(list, now)
    /\ call' = CallAfter("clean")
    /\ was' = FlagsKept(list, was, LAMBDA e : ~EggTimer_is_ready(e.timer, now))
    /\ UNCHANGED <<obj, now, sw, swLog, egg, eggLog, it>>

Clear ==
    /\ Unborrowed
    /\ list' = TimedList_clear(list)
    /\ call' = CallAfter("clear")
    /\ was' = <<>>
    /\ UNCHANGED <<obj, now, sw, swLog, egg, eggLog, it>>

\* retain() that also drops the timed-out entries.
Retain_cleaning ==
    /\ Unborrowed
    /\ \E f \in SUBSET Elems :
          /\ list' = TimedList_clean(TimedList_retain(list, f), now)
          /\ call' = [CallAfter("retain") EXCEPT !.f = f]
          /\ was' = FlagsKept(list, was,
                        LAMBDA e : e.elem \in f /\ ~EggTimer_is_ready(e.timer, now))
    /\ UNCHANGED <<obj, now, sw, swLog, egg, eggLog, it>>

Retain ==
    /\ Unborrowed
    /\ \E f \in SUBSET Elems :
          /\ list' = TimedList_retain(list, f)
          /\ call' = [CallAfter("retain") EXCEPT !.f = f]
          /\ was' = FlagsKept(list, was, LAMBDA e : e.elem \in f)
    /\ UNCHANGED <<obj, now, sw, swLog, egg, eggLog, it>>

\* Methods taking &self can run while the list is borrowed immutably.
Readable == obj = "TimedList" /\ it.kind \in {"none", "iter", "timer_iter"}

LenCall ==
    /\ Readable
    /\ call' = [CallAfter("len") EXCEPT !.n = TimedList_len(list, now)]
    /\ was' = was
    /\ UNCHANGED <<obj, now, sw, swLog, egg, eggLog, list, it>>

IsEmptyCall ==
    /\ Readable
    /\ call' = [CallAfter("is_empty") EXCEPT !.b = TimedList_is_empty(list, now)]
    /\ was' = was
    /\ UNCHANGED <<obj, now, sw, swLog, egg, eggLog, list, it>>

\* iter() that compacts the Vec before iterating, as iter_mut() does.
Iter_cleaning ==
    /\ Unborrowed
    /\ list' = TimedList_clean(list, now)
    /\ it' = NewIter("iter", list')
    /\ call' = CallAfter("iter")
    /\ was' = FlagsKept(list, was, LAMBDA e : ~EggTimer_is_ready(e.timer, now))
    /\ UNCHANGED <<obj, now, sw, swLog, egg, eggLog>>

\* iter() borrows the list and filters lazily, without cleaning.
Iter ==
    /\ Unborrowed
    /\ it' = NewIter("iter", list)
    /\ call' = CallAfter("iter")
    /\ was' = was
    /\ UNCHANGED <<obj, now, sw, swLog, egg, eggLog, list>>

TimerIter ==
    /\ Unborrowed
    /\ it' = NewIter("timer_iter", list)
    /\ call' = CallAfter("timer_iter")
    /\ was' = was
    /\ UNCHANGED <<obj, now, sw, swLog, egg, eggLog, list>>

\* iter_mut() cleans, then borrows the list mutably.
IterMut ==
    /\ Unborrowed
    /\ list' = TimedList_clean(list, now)
    /\ it' = NewIter("iter_mut", list')
    /\ call' = CallAfter("iter_mut")
    /\ was' = FlagsKept(list, was, LAMBDA e : ~EggTimer_is_ready(e.timer, now))
    /\ UNCHANGED <<obj, now, sw, swLog, egg, eggLog>>

TimerIterMut ==
    /\ Unborrowed
    /\ list' = TimedList_clean(list, now)
    /\ it' = NewIter("timer_iter_mut", list')
    /\ call' = CallAfter("timer_iter_mut")
    /\ was' = FlagsKept(list, was, LAMBDA e : ~EggTimer_is_ready(e.timer, now))
    /\ UNCHANGED <<obj, now, sw, swLog, egg, eggLog>>

\* into_iter() that moves the Vec into the iterator without cleaning it.
IntoIter_uncleaned ==
    /\ Unborrowed
    /\ it' = NewIter("into_iter", list)
    /\ list' = TimedList_new
    /\ call' = CallAfter("into_iter")
    /\ was' = was
    /\ UNCHANGED <<obj, now, sw, swLog, egg, eggLog>>

\* into_iter() cleans and moves the Vec into the iterator: the TimedList is
\* consumed, and what the program holds afterwards is a new, empty one.
IntoIter ==
    /\ Unborrowed
    /\ it' = NewIter("into_iter", TimedList_clean(list, now))
    /\ list' = TimedList_new
    /\ call' = CallAfter("into_iter")
    /\ was' = FlagsKept(list, was, LAMBDA e : ~EggTimer_is_ready(e.timer, now))
    /\ UNCHANGED <<obj, now, sw, swLog, egg, eggLog>>

\* next(): filter_map examines the next entry from the front.
IterNext ==
    /\ obj = "TimedList"
    /\ it.kind # "none"
    /\ it.front + it.back < Len(it.items)
    /\ it' = [it EXCEPT !.front = it.front + 1, !.out = Yielded(it.front + 1)]
    /\ call' = NoCall
    /\ was' = was
    /\ UNCHANGED <<obj, now, sw, swLog, egg, eggLog, list>>

\* next_back(): filter_map examines the next entry from the back.
IterNextBack ==
    /\ obj = "TimedList"
    /\ it.kind # "none"
    /\ it.front + it.back < Len(it.items)
    /\ it' = [it EXCEPT !.back = it.back + 1,
                         !.out = Yielded(Len(it.items) - it.back)]
    /\ call' = NoCall
    /\ was' = was
    /\ UNCHANGED <<obj, now, sw, swLog, egg, eggLog, list>>

\* The iterator is dropped, exhausted or not, and the borrow ends.
IterDrop ==
    /\ obj = "TimedList"
    /\ it.kind # "none"
    /\ it' = NoIter
    /\ call' = NoCall
    /\ was' = IF it.kind = "into_iter" THEN <<>> ELSE was
    /\ UNCHANGED <<obj, now, sw, swLog, egg, eggLog, list>>

NextTimedList ==
    \/ Tick \/ Insert \/ Clean \/ Clear \/ Retain
    \/ LenCall \/ IsEmptyCall
    \/ Iter \/ TimerIter \/ IterMut \/ TimerIterMut \/ IntoIter
    \/ IterNext \/ IterNextBack \/ IterDrop

\* What is done with a list collected by from_iter.
NextFromIter == Tick \/ Insert \/ Clean \/ LenCall \/ IsEmptyCall

NextStopwatch == Tick \/ Pause \/ Resume \/ Toggle \/ ResetStopwatch

NextEggTimer == Tick \/ SetEggTimer \/ ResetEggTimer

Next ==
    \/ Tick
    \/ Pause \/ Resume \/ Toggle \/ ResetStopwatch
    \/ SetEggTimer \/ ResetEggTimer
    \/ Insert \/ Clean \/ Clear \/ Retain
    \/ LenCall \/ IsEmptyCall
    \/ Iter \/ TimerIter \/ IterMut \/ TimerIterMut \/ IntoIter
    \/ IterNext \/ IterNextBack \/ IterDrop

Spec == Init /\ [][Next]_vars

SpecStopwatch == InitStopwatch /\ [][NextStopwatch]_vars

SpecEggTimer == InitEggTimer /\ [][NextEggTimer]_vars

SpecTimedList == InitTimedList /\ [][NextTimedList]_vars

SpecFromIter == InitFromIter /\ [][NextFromIter]_vars

\* insert() called for each pair in order, all at clock reading t.
RECURSIVE InsertAll(_, _, _)
InsertAll(l, pairs, t) ==
    IF pairs = <<>>
        THEN l
        ELSE InsertAll(TimedList_insert(l, pairs[1].elem, pairs[1].time, t),
                       Tail(pairs), t)

----------------------------------------------------------------------------
(* Stopwatch properties                                                    *)

\* C1: after pause() on a Running stopwatch the paused flag is true and
\* duration() stays at the value it had at the pause() call, at every later
\* clock reading, until resume(), toggle() or reset() is called.
C1_PauseFreezes ==
    (obj = "Stopwatch" /\ swLog.op = "pause" /\ ~swLog.pre.paused)
        => /\ sw.paused
           /\ Stopwatch_duration(sw, now) = Stopwatch_duration(sw, swLog.at)

\* C2: after resume() on a Paused stopwatch the paused flag is false and
\* duration() is the accumulated duration plus the clock time passed since
\* the resume() call.
C2_ResumeRuns ==
    (obj = "Stopwatch" /\ swLog.op = "resume" /\ swLog.pre.paused)
        => /\ ~sw.paused
           /\ Stopwatch_duration(sw, now) = sw.prev_dur + (now - swLog.at)

\* C3: toggle() flips the paused flag from either state, and two toggles in
\* a row give back the flag the stopwatch had before the first.
C3_ToggleFlips ==
    (obj = "Stopwatch" /\ swLog.op = "toggle")
        => /\ sw.paused = ~swLog.pre.paused
           /\ swLog.prevOp = "toggle" => sw.paused = swLog.pre2.paused

\* C4: a second pause() right after a pause(), with any clock advance in
\* between, is a no-op: accumulated duration, paused flag and reported
\* duration() are those the first pause() left.
C4_PauseTwice ==
    (obj = "Stopwatch" /\ swLog.op = "pause" /\ swLog.prevOp = "pause")
        => /\ sw.prev_dur = swLog.pre.prev_dur
           /\ sw.paused = swLog.pre.paused
           /\ Stopwatch_duration(sw, now) = Stopwatch_duration(swLog.pre, now)

\* C5: duration() counts only time spent Running, so it never exceeds the
\* clock time passed since the stopwatch was created or last reset.
C5_DurationWithinClock ==
    obj = "Stopwatch" => Stopwatch_duration(sw, now) <= now - swLog.epoch

\* C6: reset(), in either state, zeroes the accumulated duration, restarts
\* the live segment at the current clock reading and leaves the paused flag
\* as it was; duration() read at the clock reading of the reset is 0.
C6_ResetFrame ==
    (obj = "Stopwatch" /\ swLog.op = "reset")
        => /\ sw.prev_dur = 0
           /\ sw.last_start = swLog.at
           /\ sw.paused = swLog.pre.paused
           /\ Stopwatch_duration(sw, swLog.at) = 0

\* A Running stopwatch with accumulated time has just been reset.
C6_Witness ==
    /\ obj = "Stopwatch"
    /\ swLog.op = "reset"
    /\ ~swLog.pre.paused
    /\ swLog.pre.prev_dur > 0
    /\ swLog.pre.last_start < swLog.at
    /\ now = swLog.at

----------------------------------------------------------------------------
(* EggTimer properties                                                     *)

\* C7: at every clock reading is_ready() is true exactly when the time
\* elapsed since set()/reset() is at least the target, duration_left() is
\* absent exactly then, and when present it is target minus elapsed, never
\* negative.
C7_ReadyIffElapsed ==
    obj = "EggTimer" =>
        LET elapsed == EggTimer_duration(egg, now)
            left    == EggTimer_duration_left(egg, now)
        IN  /\ EggTimer_is_ready(egg, now) <=> elapsed >= egg.duration
            /\ left = None <=> elapsed >= egg.duration
            /\ left # None => left[1] = egg.duration - elapsed /\ left[1] >= 0

\* C8: an EggTimer set with target 0 is ready at the very clock reading of
\* the set(0) call.
C8_ZeroIsReady ==
    (obj = "EggTimer" /\ eggLog.op = "set" /\ egg.duration = 0 /\ now = eggLog.at)
        => /\ EggTimer_is_ready(egg, now)
           /\ EggTimer_duration_left(egg, now) = None

\* C9: for a target d > 0, is_ready() is false at the clock reading of
\* set(d) or reset(), true once the clock has advanced by at least d, stays
\* true until reset(), and reset() leaves max_duration() unchanged.
C9_Countdown ==
    /\ [](obj = "EggTimer" /\ egg.duration > 0 =>
            /\ now = eggLog.at => ~EggTimer_is_ready(egg, now)
            /\ now - eggLog.at >= egg.duration => EggTimer_is_ready(egg, now)
            /\ eggLog.op = "reset" =>
                  EggTimer_max_duration(egg) = EggTimer_max_duration(eggLog.pre))
    /\ [][(obj = "EggTimer" /\ egg.duration > 0 /\ egg' = egg
             /\ EggTimer_is_ready(egg, now))
            => EggTimer_is_ready(egg', now')]_vars

----------------------------------------------------------------------------
(* TimedList properties                                                    *)

\* C10: every item an iteration yields (iter, timer_iter, iter_mut,
\* timer_iter_mut or consuming iteration) comes from an entry of the
\* iterated Vec whose EggTimer is not ready at the clock reading of that
\* iteration step, cleaned or not; an entry that times out after the
\* iteration began but before its own step is skipped.
C10_YieldedNotReady ==
    obj = "TimedList" =>
        \A k \in 1..Len(it.out) :
            LET y == it.out[k]
            IN  /\ y.entry = it.items[y.idx]
                /\ y.item = IF it.kind \in {"timer_iter", "timer_iter_mut"}
                               THEN <<y.entry.elem, y.entry.timer>>
                               ELSE y.entry.elem
                /\ ~EggTimer_is_ready(y.entry.timer, y.at)

\* A mutable iteration over two entries, both live when iter_mut() cleaned,
\* has stepped over both: the first was yielded, the second had timed out
\* by the time of its step and was skipped.
C10_Witness ==
    /\ obj = "TimedList"
    /\ it.kind = "iter_mut"
    /\ Len(it.items) = 2
    /\ it.front = 2
    /\ it.back = 0
    /\ Len(it.out) = 1
    /\ it.out[1].idx = 1
    /\ it.out[1].at < now
    /\ EggTimer_is_ready(it.items[2].timer, now)

\* C11: once an entry's timer has been seen ready, no iteration step of any
\* kind yields that entry again and len()/is_empty() never count it again,
\* whatever calls and clock advances follow and while the entry is still
\* in the Vec.
C11_ExpiredStaysUnreadable ==
    /\ [](obj = "TimedList" =>
            /\ Len(was) = Len(Vec)
            /\ call.op = "len" =>
                  call.n = Cardinality({i \in 1..Len(list) : ~was[i]})
            /\ call.op = "is_empty" =>
                  call.b = (\A i \in 1..Len(list) : was[i]))
    /\ [][(obj = "TimedList" /\ Len(it'.out) > Len(it.out))
            => ~was[it'.out[Len(it'.out)].idx]]_vars

\* A list still holds a timed-out first entry and a live second one; a
\* complete timer_iter() yielded only the second and len() returned 1.
C11_Witness ==
    /\ obj = "TimedList"
    /\ it.kind = "timer_iter"
    /\ Len(list) = 2
    /\ was[1]
    /\ ~was[2]
    /\ it.front = 2
    /\ Len(it.out) = 1
    /\ it.out[1].idx = 2
    /\ call.op = "len"
    /\ call.n = 1

\* C12: iter(), timer_iter(), len() and is_empty(), and the steps of the
\* immutable iterators, leave the Vec as it was, timed-out entries included;
\* so a len() or clean() made at the same clock reading gives what it would
\* have given without them.
C12_ReadsKeepStorage ==
    obj = "TimedList" =>
        /\ call.op \in {"iter", "timer_iter", "len", "is_empty"} =>
              /\ list = call.pre
              /\ TimedList_len(list, now) = TimedList_len(call.pre, now)
              /\ TimedList_clean(list, now) = TimedList_clean(call.pre, now)
        /\ it.kind \in {"iter", "timer_iter"} => list = it.items

\* Both entries of the list have timed out and are still in the Vec after a
\* complete iter(), which yielded nothing, and an is_empty() that said true.
C12_Witness ==
    /\ obj = "TimedList"
    /\ it.kind = "iter"
    /\ Len(list) = 2
    /\ was[1]
    /\ was[2]
    /\ it.front + it.back = 2
    /\ it.out = <<>>
    /\ call.op = "is_empty"
    /\ call.b

\* C13: clean() removes exactly the entries whose timer is ready at the call
\* and keeps the others unchanged and in order; with "a" and "b" inserted
\* together, "a" timed out and "b" not, clean() then iter() gives ["b"].
C13_CleanRemovesReady ==
    (obj = "TimedList" /\ call.op = "clean") =>
        LET pre  == call.pre
            live == {i \in 1..Len(pre) : ~EggTimer_is_ready(pre[i].timer, call.at)}
        IN  /\ Len(list) = Cardinality(live)
            /\ \E g \in [1..Len(list) -> live] :
                  /\ \A j, k \in 1..Len(list) : j < k => g[j] < g[k]
                  /\ \A j \in 1..Len(list) : list[j] = pre[g[j]]
            /\ (/\ Len(pre) = 2
                /\ pre[1].elem = "a"
                /\ pre[2].elem = "b"
                /\ 1 \notin live
                /\ 2 \in live) => TimedList_iter(list, now) = <<"b">>

\* "a" with duration 0 and "b" with duration 2 were put in at the same clock
\* reading, the clock advanced by 1 and clean() left only "b".
C13_Witness ==
    /\ obj = "TimedList"
    /\ call.op = "clean"
    /\ Len(call.pre) = 2
    /\ call.pre[1].elem = "a"
    /\ call.pre[1].timer.duration = 0
    /\ call.pre[2].elem = "b"
    /\ call.pre[2].timer.duration = 2
    /\ call.pre[1].timer.timer.start = call.pre[2].timer.timer.start
    /\ call.at = call.pre[1].timer.timer.start + 1
    /\ list = <<call.pre[2]>>
    /\ TimedList_iter(list, now) = <<"b">>

\* C14: after a mutating call (insert, clean, clear, retain, iter_mut,
\* timer_iter_mut) the Vec holds no entry whose timer was ready when the
\* call was made.
C14_MutatingCallRemovesExpired ==
    (/\ obj = "TimedList"
     /\ call.op \in {"insert", "clean", "clear", "retain", "iter_mut", "timer_iter_mut"})
        => \A i \in 1..Len(list) : ~EggTimer_is_ready(list[i].timer, call.at)

C16_LenCountsLive ==
    obj = "TimedList" =>
        LET live == {i \in 1..Len(list) : ~EggTimer_is_ready(list[i].timer, call.at)}
        IN  /\ call.op = "len" => call.n = Cardinality(live)
            /\ call.op = "is_empty" => (call.b <=> Cardinality(live) = 0)
            /\ call.op = "clear" =>
                  /\ TimedList_len(list, now) = 0
                  /\ TimedList_is_empty(list, now)

\* The Vec holds two entries, both timed out, and len() returned 0.
C16_Witness ==
    /\ obj = "TimedList"
    /\ call.op = "len"
    /\ Len(list) = 2
    /\ EggTimer_is_ready(list[1].timer, now)
    /\ EggTimer_is_ready(list[2].timer, now)
    /\ call.n = 0

\* C17: from_iter on n (value, duration) pairs makes n entries in the order
\* of the pairs, each with its own duration and a timer started at the
\* call: the list insert() builds from the same pairs on an empty list;
\* len() at the clock reading of the construction is n.
C17_FromIterIsInserts ==
    (obj = "TimedList" /\ call.op = "from_iter") =>
        /\ Len(list) = Len(call.pairs)
        /\ \A i \in 1..Len(list) :
              /\ list[i].elem = call.pairs[i].elem
              /\ list[i].timer.duration = call.pairs[i].time
              /\ list[i].timer.timer.start = call.at
        /\ list = InsertAll(TimedList_new, call.pairs, call.at)
        /\ TimedList_len(list, now) = Len(call.pairs)

\* A list was collected from three pairs with different durations, after
\* the clock had advanced, and len() of it is 3.
C17_Witness ==
    /\ obj = "TimedList"
    /\ call.op = "from_iter"
    /\ call.at > 0
    /\ Len(call.pairs) = 3
    /\ call.pairs[1].time # call.pairs[2].time
    /\ call.pairs[1].elem # call.pairs[3].elem
    /\ Len(list) = 3
    /\ TimedList_len(list, now) = 3

C19_MutIterCompactsFirst ==
    obj = "TimedList" =>
        LET pre  == call.pre
            live == {i \in 1..Len(pre) : ~EggTimer_is_ready(pre[i].timer, call.at)}
        IN  /\ call.op \in {"iter_mut", "timer_iter_mut", "into_iter"} =>
                  /\ it.out = <<>>
                  /\ Len(it.items) = Cardinality(live)
                  /\ \A i \in 1..Len(it.items) :
                        ~EggTimer_is_ready(it.items[i].timer, call.at)
                  /\ call.op # "into_iter" => list = it.items
            /\ call.op \in {"iter", "timer_iter"} =>
                  /\ it.out = <<>>
                  /\ list = pre
                  /\ it.items = pre

\* into_iter() was called on a Vec whose first entry had timed out: the
\* iterator holds only the second entry and has yielded nothing yet.
C19_Witness ==
    /\ obj = "TimedList"
    /\ call.op = "into_iter"
    /\ Len(call.pre) = 2
    /\ EggTimer_is_ready(call.pre[1].timer, call.at)
    /\ ~EggTimer_is_ready(call.pre[2].timer, call.at)
    /\ it.items = <<call.pre[2]>>
    /\ it.out = <<>>

====
